---- MODULE Spec2Model ----
(***************************************************************************)
(* Model of nengo/simulator_objects.py: the strided SignalView calculus    *)
(* (reshape, transpose, __getitem__), the Encoder/Decoder constructors     *)
(* with their shared random source, and the SimModel builder.              *)
(*                                                                         *)
(* Python values are modelled as follows.                                  *)
(*   - a tuple or list is a sequence;                                      *)
(*   - a SignalView is a record [base, shape, elemstrides, offset], its    *)
(*     base Signal being identified by its size n;                         *)
(*   - an index is a tagged record: an integer, a slice (start/stop/step   *)
(*     each an option: <<>> is None, <<k>> is the integer k), a value of   *)
(*     any other type, or a tuple of these;                                *)
(*   - the outcome of a call is [ok |-> TRUE, val |-> v] when it returns v *)
(*     and [ok |-> FALSE, err |-> "Class"] when it raises Class.           *)
(***************************************************************************)
EXTENDS Integers, Sequences, FiniteSets, TLC

VARIABLES
    view,      \* the SignalView the next view operation is applied to
    call,      \* the last view operation called: its name, receiver, argument
    ret,       \* the outcome of that call
    depth,     \* how many operations produced `view` from its Signal
    model,     \* the SimModel under construction
    rng,       \* random_weight_rng: the shared random source
    mcall,     \* the last SimModel factory call
    mret,      \* the outcome of that call
    ncalls     \* the number of factory calls made so far

vars == <<view, call, ret, depth, model, rng, mcall, mret, ncalls>>

viewVars == <<view, call, ret, depth>>
buildVars == <<model, rng, mcall, mret, ncalls>>

----------------------------------------------------------------------------
(* Bounds of the explored inputs.                                          *)

MaxN == 6          \* Signal sizes are 0..MaxN
MaxDim == 3        \* reshape dimensions are -MaxNeg..MaxDim
MaxRank == 2       \* reshape shapes have at most MaxRank dimensions
MaxIdx == 2        \* integer indices and slice ends are -MaxNeg..MaxIdx
MaxNeg == 1        \* the most negative integer supplied is -MaxNeg
MaxTuple == 2      \* tuple indices have at most MaxTuple entries
MaxDepth == 1      \* operations chained on one Signal
MaxCalls == 3      \* factory calls made on one SimModel

----------------------------------------------------------------------------
(* Outcomes of calls.                                                      *)

Return(v) == [ok |-> TRUE, val |-> v]
Raise(e) == [ok |-> FALSE, err |-> e]
NoCall == [op |-> "none"]
NoRet == [ok |-> FALSE, err |-> "none"]

----------------------------------------------------------------------------
(* SignalView and Signal.                                                  *)

SignalView(base, shape, elemstrides, offset) ==
    [base |-> base, shape |-> shape, elemstrides |-> elemstrides, offset |-> offset]

\* A Signal is its own base, of shape (n,), elemstrides (1,) and offset 0.
Signal(n) == SignalView(n, <<n>>, <<1>>, 0)

RECURSIVE prod(_)
prod(shape) == IF shape = <<>> THEN 1 ELSE Head(shape) * prod(Tail(shape))

size(v) == prod(v.shape)

\* elemstrides = [1]; for si in reversed(shape[1:]): elemstrides = [si * elemstrides[0]] + elemstrides
RECURSIVE RowMajor(_)
RowMajor(shape) ==
    IF Len(shape) <= 1 THEN <<1>>
    ELSE LET rest == RowMajor(Tail(shape))
         IN <<shape[2] * rest[1]>> \o rest

reshape(v, shape) ==
    IF v.elemstrides = <<1>>
    THEN IF prod(shape) # size(v)
         THEN Raise("ShapeMismatch")
         ELSE Return(SignalView(v.base, shape, RowMajor(shape), v.offset))
    ELSE Raise("TODO")

transpose(v) == Raise("TODO")

----------------------------------------------------------------------------
(* Indices.                                                                *)

None == <<>>
Some(k) == <<k>>

IntIdx(k) == [kind |-> "int", val |-> k]
SliceIdx(start, stop, step) == [kind |-> "slice", start |-> start, stop |-> stop, step |-> step]
OtherIdx == [kind |-> "other"]
TupleIdx(items) == [kind |-> "tuple", items |-> items]

\* idx.indices(length): Python's normalisation of a slice's start, stop and
\* step against a length.
SliceStep(s) == IF s.step = None THEN 1 ELSE s.step[1]

Clamp(x, length, lower, upper) ==
    IF x < 0
    THEN (IF x + length < lower THEN lower ELSE x + length)
    ELSE (IF x > upper THEN upper ELSE x)

\* [start, stop, step], or a ValueError for a zero step or a negative length
SliceIndices(s, length) ==
    LET step == SliceStep(s)
        lower == IF step < 0 THEN -1 ELSE 0
        upper == IF step < 0 THEN length - 1 ELSE length
        start == IF s.start = None
                 THEN (IF step < 0 THEN upper ELSE lower)
                 ELSE Clamp(s.start[1], length, lower, upper)
        stop == IF s.stop = None
                THEN (IF step < 0 THEN lower ELSE upper)
                ELSE Clamp(s.stop[1], length, lower, upper)
    IN  IF step = 0 \/ length < 0
        THEN Raise("ValueError")
        ELSE Return([start |-> start, stop |-> stop, step |-> step])

\* list.pop(i) of a Python list, for a 1-based position i within the list
RemoveAt(seq, i) == SubSeq(seq, 1, i - 1) \o SubSeq(seq, i + 1, Len(seq))

\* The loop of __getitem__ over the entries of a tuple index, from entry i on
\* (entry i addresses dimension i; Python's ii is i - 1).  acc carries the
\* loop's locals shape, offset and dims_to_del; elemstrides is not changed by
\* the loop.  An entry that is neither an int nor a slice is passed over.
RECURSIVE IndexLoop(_, _, _, _)
IndexLoop(items, i, elemstrides, acc) ==
    IF i > Len(items) THEN Return(acc)
    ELSE LET idx == items[i] IN
         IF idx.kind = "int"
         THEN IF i > Len(elemstrides)
              THEN Raise("IndexError")
              ELSE IndexLoop(items, i + 1, elemstrides,
                       [acc EXCEPT !.dims_to_del = Append(@, i),
                                   !.offset = @ + idx.val * elemstrides[i]])
         ELSE IF idx.kind = "slice"
         THEN IF i > Len(acc.shape)
              THEN Raise("IndexError")
              ELSE LET r == SliceIndices(idx, acc.shape[i]) IN
                   IF ~r.ok THEN r
                   ELSE IF i > Len(elemstrides) THEN Raise("IndexError")
                   ELSE IF r.val.step # 1 THEN Raise("NotImplementedError")
                   ELSE IndexLoop(items, i + 1, elemstrides,
                            [acc EXCEPT !.offset = @ + r.val.start * elemstrides[i],
                                        !.shape[i] = r.val.stop - r.val.start])
         ELSE IndexLoop(items, i + 1, elemstrides, acc)

\* for dim in reversed(dims_to_del): shape.pop(dim); elemstrides.pop(dim)
RECURSIVE PopDims(_, _, _)
PopDims(shape, elemstrides, dims_to_del) ==
    IF dims_to_del = <<>>
    THEN Return([shape |-> shape, elemstrides |-> elemstrides])
    ELSE LET dim == dims_to_del[Len(dims_to_del)] IN
         IF dim > Len(shape) \/ dim > Len(elemstrides)
         THEN Raise("IndexError")
         ELSE PopDims(RemoveAt(shape, dim), RemoveAt(elemstrides, dim),
                      SubSeq(dims_to_del, 1, Len(dims_to_del) - 1))

\* __getitem__ with a tuple (or list) index
getitem_tuple(v, items) ==
    LET looped == IndexLoop(items, 1, v.elemstrides,
                            [shape |-> v.shape, offset |-> v.offset, dims_to_del |-> <<>>])
    IN  IF ~looped.ok THEN looped
        ELSE LET popped == PopDims(looped.val.shape, v.elemstrides, looped.val.dims_to_del)
             IN  IF ~popped.ok THEN popped
                 ELSE Return(SignalView(v.base, popped.val.shape,
                                        popped.val.elemstrides, looped.val.offset))

\* __getitem__ with a bare integer index
getitem_int(v, item) ==
    IF Len(v.shape) = 0 THEN Raise("IndexError")
    ELSE IF ~(0 <= item /\ item < v.shape[1]) THEN Raise("NotImplementedError")
    ELSE Return(SignalView(v.base, Tail(v.shape), Tail(v.elemstrides),
                           v.offset + item * v.elemstrides[1]))

getitem(v, item) ==
    IF item.kind = "tuple" THEN getitem_tuple(v, item.items)
    ELSE IF item.kind = "int" THEN getitem_int(v, item.val)
    ELSE IF item.kind = "slice" THEN getitem_tuple(v, <<item>>)
    ELSE Raise("NotImplementedError")

----------------------------------------------------------------------------
(* The inputs explored.                                                    *)

Dims == (0 - MaxNeg) .. MaxDim
Shapes == UNION {[1..k -> Dims] : k \in 0..MaxRank}

Ints == (0 - MaxNeg) .. MaxIdx
Ends == {None} \cup {Some(k) : k \in Ints}
Steps == {None, Some(1), Some(2)}
Elems == {IntIdx(k) : k \in Ints}
         \cup {SliceIdx(a, b, c) : a \in Ends, b \in Ends, c \in Steps}
         \cup {OtherIdx}
Items == Elems \cup {TupleIdx(t) : t \in UNION {[1..k -> Elems] : k \in 0..MaxTuple}}

----------------------------------------------------------------------------------------------------------------------------------------
(* The shared random source.  A RandomState is a seeded stream of normal   *)
(* draws: its state is the seed and the number of draws consumed.  An      *)
(* array drawn from it is identified by the stream it came from, the       *)
(* position of its first draw and its shape; an array with no element      *)
(* holds no draw, so every empty array of one shape is the same array.     *)

Seed == 12345

\* the states the source can be in when the module has been imported
random_weight_rng == {[seed |-> Seed, pos |-> 0]}

\* rng.randn(d0, d1): the array, and the source after the draw
randn(r, d0, d1) ==
    IF d0 < 0 \/ d1 < 0
    THEN [ok |-> FALSE, err |-> "ValueError", rng |-> r]
    ELSE [ok |-> TRUE,
          val |-> [from |-> "randn", seed |-> r.seed,
                   at |-> IF d0 * d1 = 0 THEN 0 ELSE r.pos,
                   shape |-> <<d0, d1>>],
          rng |-> [r EXCEPT !.pos = @ + d0 * d1]]

\* np.asarray(weights) of weights supplied by the caller
GivenWeights(shape) == [from |-> "given", seed |-> 0, at |-> 0, shape |-> shape]

----------------------------------------------------------------------------
(* Encoder and Decoder.  The constructors take the random source and give  *)
(* it back with the outcome; weights is None or Some(array).               *)

\* an Encoder that takes explicit weights without checking their shape
Encoder_unchecked(r, sig, pop, weights) ==
    IF weights = None
    THEN LET drawn == randn(r, pop.n, size(sig)) IN
         IF ~drawn.ok THEN drawn
         ELSE [ok |-> TRUE, rng |-> drawn.rng,
               val |-> [class |-> "Encoder", sig |-> sig, pop |-> pop, weights |-> drawn.val]]
    ELSE [ok |-> TRUE, rng |-> r,
          val |-> [class |-> "Encoder", sig |-> sig, pop |-> pop, weights |-> weights[1]]]

Encoder(r, sig, pop, weights) ==
    IF weights = None
    THEN LET drawn == randn(r, pop.n, size(sig)) IN
         IF ~drawn.ok THEN drawn
         ELSE [ok |-> TRUE, rng |-> drawn.rng,
               val |-> [class |-> "Encoder", sig |-> sig, pop |-> pop, weights |-> drawn.val]]
    ELSE IF weights[1].shape # <<pop.n, size(sig)>>
         THEN [ok |-> FALSE, err |-> "ValueError", rng |-> r]
         ELSE [ok |-> TRUE, rng |-> r,
               val |-> [class |-> "Encoder", sig |-> sig, pop |-> pop, weights |-> weights[1]]]

Decoder(r, pop, sig, weights) ==
    IF weights = None
    THEN LET drawn == randn(r, size(sig), pop.n) IN
         IF ~drawn.ok THEN drawn
         ELSE [ok |-> TRUE, rng |-> drawn.rng,
               val |-> [class |-> "Decoder", pop |-> pop, sig |-> sig, weights |-> drawn.val]]
    ELSE IF weights[1].shape # <<size(sig), pop.n>>
         THEN [ok |-> FALSE, err |-> "ValueError", rng |-> r]
         ELSE [ok |-> TRUE, rng |-> r,
               val |-> [class |-> "Decoder", pop |-> pop, sig |-> sig, weights |-> weights[1]]]

----------------------------------------------------------------------------
(* SimModel.  Every factory is an operator from the model, the random      *)
(* source and the arguments to the model and source after the call and the *)
(* call's outcome.  id is the identity of the object the call constructs   *)
(* (Python objects are compared by identity): the ordinal of the call.     *)

DefaultDt == 1     \* dt = 0.001, in milliseconds

SimModel(dt) ==
    [dt |-> dt, signals |-> <<>>, nonlinearities |-> <<>>, encoders |-> <<>>,
     decoders |-> <<>>, transforms |-> <<>>, filters |-> <<>>, signal_probes |-> <<>>]

Collections == {"signals", "nonlinearities", "encoders", "decoders",
                "transforms", "filters", "signal_probes"}

Outcome(m, r, o) == [model |-> m, rng |-> r, ret |-> o]

WithId(x, id) == [f \in DOMAIN x \cup {"id"} |-> IF f = "id" THEN id ELSE x[f]]

\* the population kinds registered in nengo.nonlinear.registry
nlreg == {"LIF"}

\* nlclass(*args, **kwargs): the population of that kind with args neurons
nlclass(kind, args) == [class |-> kind, n |-> args]

signal(m, r, id, n, value) ==
    LET rval == IF value = None
                THEN [class |-> "Signal", id |-> id, n |-> n, value |-> None]
                ELSE [class |-> "Constant", id |-> id, n |-> n, value |-> value]
    IN  Outcome([m EXCEPT !.signals = Append(@, rval)], r, Return(rval))

\* a signal_probe that appends the probe to the signals
signal_probe_misfiled(m, r, id, sig, dt) ==
    LET rval == [class |-> "SignalProbe", id |-> id, sig |-> sig, dt |-> dt]
    IN  Outcome([m EXCEPT !.signals = Append(@, rval)], r, Return(rval))

signal_probe(m, r, id, sig, dt) ==
    LET rval == [class |-> "SignalProbe", id |-> id, sig |-> sig, dt |-> dt]
    IN  Outcome([m EXCEPT !.signal_probes = Append(@, rval)], r, Return(rval))

\* `nl` is not defined where the TypeError is built, and `rvla` is not
\* defined where the method returns: both evaluations raise NameError.
nonlinearity(m, r, id, kind, args) ==
    IF kind \notin nlreg
    THEN Outcome(m, r, Raise("NameError"))
    ELSE LET rval == WithId(nlclass(kind, args), id)
         IN  Outcome([m EXCEPT !.nonlinearities = Append(@, rval)], r, Raise("NameError"))

encoder(m, r, id, sig, pop, weights) ==
    LET made == Encoder(r, sig, pop, weights) IN
    IF ~made.ok THEN Outcome(m, made.rng, Raise(made.err))
    ELSE LET rval == WithId(made.val, id)
         IN  Outcome([m EXCEPT !.encoders = Append(@, rval)], made.rng, Return(rval))

decoder(m, r, id, pop, sig, weights) ==
    LET made == Decoder(r, pop, sig, weights) IN
    IF ~made.ok THEN Outcome(m, made.rng, Raise(made.err))
    ELSE LET rval == WithId(made.val, id)
         IN  Outcome([m EXCEPT !.decoders = Append(@, rval)], made.rng, Return(rval))

transform(m, r, id, alpha, insig, outsig) ==
    LET rval == [class |-> "Transform", id |-> id, alpha |-> alpha,
                 insig |-> insig, outsig |-> outsig]
    IN  Outcome([m EXCEPT !.transforms = Append(@, rval)], r, Return(rval))

filter(m, r, id, alpha, oldsig, newsig) ==
    LET rval == [class |-> "Filter", id |-> id, alpha |-> alpha,
                 oldsig |-> oldsig, newsig |-> newsig]
    IN  Outcome([m EXCEPT !.filters = Append(@, rval)], r, Return(rval))

\* one factory call, as recorded in mcall, applied to a model and a source
Apply(m, r, id, c) ==
    CASE c.op = "signal" -> signal(m, r, id, c.n, c.value)
      [] c.op = "signal_probe" -> signal_probe(m, r, id, c.sig, c.dt)
      [] c.op = "nonlinearity" -> nonlinearity(m, r, id, c.kind, c.args)
      [] c.op = "encoder" -> encoder(m, r, id, c.sig, c.pop, c.weights)
      [] c.op = "decoder" -> decoder(m, r, id, c.pop, c.sig, c.weights)
      [] c.op = "transform" -> transform(m, r, id, c.alpha, c.insig, c.outsig)
      [] c.op = "filter" -> filter(m, r, id, c.alpha, c.oldsig, c.newsig)

----------------------------------------------------------------------------
(* The arguments explored.                                                 *)

\* a view of negative size: Signal(1)[1:0] has shape (-1,)
NegView == getitem(Signal(1), SliceIdx(Some(1), Some(0), None)).val

\* a view of size zero: Signal(1)[0:0] has shape (0,)
EmptyView == getitem(Signal(1), SliceIdx(Some(0), Some(0), None)).val

SigArgs == {EmptyView, Signal(1), NegView}
PopArgs == {WithId(nlclass("LIF", 2), 0)}
WeightArgs == {None, Some(GivenWeights(<<2, 1>>)), Some(GivenWeights(<<1, 2>>))}
KindArgs == nlreg \cup {"Unregistered"}
ValueArgs == {None, Some(7)}

----------------------------------------------------------------------------
(* The build as a state machine: each action is one factory call on the    *)
(* SimModel, made with the shared random source.                           *)

InitBuild ==
    /\ model = SimModel(DefaultDt)
    /\ rng \in random_weight_rng
    /\ mcall = NoCall
    /\ mret = NoRet
    /\ ncalls = 0
    /\ view = Signal(1)
    /\ call = NoCall
    /\ ret = NoRet
    /\ depth = 0

Make(c) ==
    /\ ncalls < MaxCalls
    /\ ncalls' = ncalls + 1
    /\ mcall' = c
    /\ LET out == Apply(model, rng, ncalls + 1, c) IN
        /\ model' = out.model
        /\ rng' = out.rng
        /\ mret' = out.ret

CallSignal ==
    \E value \in ValueArgs :
        Make([op |-> "signal", n |-> 1, value |-> value])

CallSignalProbe ==
    \E sig \in SigArgs :
        Make([op |-> "signal_probe", sig |-> sig, dt |-> DefaultDt])

CallNonlinearity ==
    \E kind \in KindArgs :
        Make([op |-> "nonlinearity", kind |-> kind, args |-> 2])

CallEncoder ==
    \E sig \in SigArgs, pop \in PopArgs, weights \in WeightArgs :
        Make([op |-> "encoder", sig |-> sig, pop |-> pop, weights |-> weights])

CallDecoder ==
    \E sig \in SigArgs, pop \in PopArgs, weights \in WeightArgs :
        Make([op |-> "decoder", sig |-> sig, pop |-> pop, weights |-> weights])

CallTransform ==
    Make([op |-> "transform", alpha |-> 1, insig |-> Signal(1), outsig |-> Signal(1)])

CallFilter ==
    Make([op |-> "filter", alpha |-> 1, oldsig |-> Signal(1), newsig |-> Signal(1)])

NextBuild ==
    \/ CallSignal /\ UNCHANGED viewVars
    \/ CallSignalProbe /\ UNCHANGED viewVars
    \/ CallNonlinearity /\ UNCHANGED viewVars
    \/ CallEncoder /\ UNCHANGED viewVars
    \/ CallDecoder /\ UNCHANGED viewVars
    \/ CallTransform /\ UNCHANGED viewVars
    \/ CallFilter /\ UNCHANGED viewVars

----------------
(* The view calculus as a state machine: a Signal is created, operations   *)
(* are called on the current view, and a returned view may become the      *)
(* receiver of the next call (x.reshape(2, 3)[1]).                         *)

InitView ==
    /\ view \in {Signal(n) : n \in 0..MaxN}
    /\ call = NoCall
    /\ ret = NoRet
    /\ depth = 0
    /\ model = SimModel(DefaultDt)
    /\ rng \in random_weight_rng
    /\ mcall = NoCall
    /\ mret = NoRet
    /\ ncalls = 0

CallReshape ==
    /\ call = NoCall
    /\ \E shape \in Shapes :
        /\ call' = [op |-> "reshape", self |-> view, arg |-> shape]
        /\ ret' = reshape(view, shape)
    /\ UNCHANGED <<view, depth>>

CallTranspose ==
    /\ call = NoCall
    /\ call' = [op |-> "transpose", self |-> view]
    /\ ret' = transpose(view)
    /\ UNCHANGED <<view, depth>>

CallGetItem ==
    /\ call = NoCall
    /\ \E item \in Items :
        /\ call' = [op |-> "getitem", self |-> view, arg |-> item]
        /\ ret' = getitem(view, item)
    /\ UNCHANGED <<view, depth>>

\* the caller goes on with the returned view
Chain ==
    /\ call # NoCall
    /\ ret.ok
    /\ depth < MaxDepth
    /\ view' = ret.val
    /\ depth' = depth + 1
    /\ call' = NoCall
    /\ ret' = NoRet

NextView ==
    \/ CallReshape /\ UNCHANGED buildVars
    \/ CallTranspose /\ UNCHANGED buildVars
    \/ CallGetItem /\ UNCHANGED buildVars
    \/ Chain /\ UNCHANGED buildVars

SpecView == InitView /\ [][NextView]_vars

SpecBuild == InitBuild /\ [][NextBuild]_vars

----------------------------------------------------------------------------
(* Properties of the view calculus, checked under SpecView.                *)

Min(a, b) == IF a < b THEN a ELSE b
Max(a, b) == IF a > b THEN a ELSE b

InRange(k, n) == 0 <= k /\ k < n
IsIndexing == call.op = "getitem"
IsUnitSlice(idx) == idx.kind = "slice" /\ idx.step \in {None, Some(1)}

\* A slice bound normalised against a dimension of size n, as Python's
\* slicing of a sequence of n elements does for a step of 1.
Norm(x, n, default) ==
    IF x = None THEN default
    ELSE IF x[1] < 0 THEN Max(x[1] + n, 0) ELSE Min(x[1], n)
NormStart(idx, n) == Norm(idx.start, n, 0)
NormStop(idx, n) == Norm(idx.stop, n, n)

\* the errors __getitem__ raises for an integer index out of range
OutOfRangeErrors == {"IndexError", "NotImplementedError"}

\* the index holds an integer outside [0, shape[d]) on the dimension d it addresses
HasOutOfRangeInt(v, item) ==
    \/ /\ item.kind = "int"
       /\ Len(v.shape) >= 1
       /\ ~InRange(item.val, v.shape[1])
    \/ /\ item.kind = "tuple"
       /\ \E i \in 1..Min(Len(item.items), Len(v.shape)) :
            /\ item.items[i].kind = "int"
            /\ ~InRange(item.items[i].val, v.shape[i])

\* C3: an integer index outside [0, shape[d]) on the dimension it addresses
\* makes indexing fail with the out-of-range condition and return no view,
\* whether the integer is given bare or as an entry of a tuple index.
C3_OutOfRangeIndexFails ==
    (IsIndexing /\ HasOutOfRangeInt(call.self, call.arg))
        => (~ret.ok /\ ret.err \in OutOfRangeErrors)

\* strides are the row-major element strides of shape: one per dimension,
\* the last 1, each other the product of the next stride and the next size
IsRowMajor(strides, shape) ==
    /\ Len(strides) = Len(shape)
    /\ Len(shape) >= 1 => strides[Len(shape)] = 1
    /\ \A d \in 1..(Len(shape) - 1) : strides[d] = strides[d + 1] * shape[d + 1]

\* C4: reshaping a Signal s of size N to a shape S returns, when
\* product(S) = N, the view of base s, offset 0, shape S, size N and
\* row-major strides for S, and fails with shape-mismatch otherwise.
C4_ReshapeOfSignal ==
    (call.op = "reshape" /\ call.self = Signal(call.self.base))
        => IF prod(call.arg) = call.self.base
           THEN /\ ret.ok
                /\ ret.val.base = call.self.base
                /\ ret.val.offset = 0
                /\ ret.val.shape = call.arg
                /\ size(ret.val) = call.self.base
                /\ IsRowMajor(ret.val.elemstrides, call.arg)
           ELSE ret = Raise("ShapeMismatch")

\* the tuple index has at most ndim entries, each an in-range integer or a
\* slice of unit stride
IsPlainTuple(v, item) ==
    /\ item.kind = "tuple"
    /\ Len(item.items) <= Len(v.shape)
    /\ \A i \in 1..Len(item.items) :
         \/ item.items[i].kind = "int" /\ InRange(item.items[i].val, v.shape[i])
         \/ IsUnitSlice(item.items[i])

\* the offset added by entry i of the index
Step(v, items, i) ==
    IF items[i].kind = "int"
    THEN items[i].val * v.elemstrides[i]
    ELSE NormStart(items[i], v.shape[i]) * v.elemstrides[i]

RECURSIVE SumSteps(_, _, _)
SumSteps(v, items, i) ==
    IF i > Len(items) THEN 0 ELSE Step(v, items, i) + SumSteps(v, items, i + 1)

\* dimension d is addressed by an integer and so removed
Removed(items, d) == d <= Len(items) /\ items[d].kind = "int"

\* the size of dimension d after the index is applied
Resized(v, items, d) ==
    IF d <= Len(items) /\ items[d].kind = "slice"
    THEN NormStop(items[d], v.shape[d]) - NormStart(items[d], v.shape[d])
    ELSE v.shape[d]

\* the dimensions kept, in their original order, from dimension d on
RECURSIVE KeptShape(_, _, _)
KeptShape(v, items, d) ==
    IF d > Len(v.shape) THEN <<>>
    ELSE (IF Removed(items, d) THEN <<>> ELSE <<Resized(v, items, d)>>)
         \o KeptShape(v, items, d + 1)

RECURSIVE KeptStrides(_, _, _)
KeptStrides(v, items, d) ==
    IF d > Len(v.elemstrides) THEN <<>>
    ELSE (IF Removed(items, d) THEN <<>> ELSE <<v.elemstrides[d]>>)
         \o KeptStrides(v, items, d + 1)

\* C5: a tuple index of at most ndim entries, each an in-range integer or a
\* unit-stride slice, returns the view over the same base whose offset is
\* v.offset plus the sum of index (or normalised slice start) times stride,
\* with each sliced dimension resized to stop - start, each integer-indexed
\* dimension removed and the other dimensions kept in order.
C5_TupleIndexView ==
    (IsIndexing /\ IsPlainTuple(call.self, call.arg))
        => /\ ret.ok
           /\ ret.val = SignalView(call.self.base,
                                   KeptShape(call.self, call.arg.items, 1),
                                   KeptStrides(call.self, call.arg.items, 1),
                                   call.self.offset + SumSteps(call.self, call.arg.items, 1))

\* the index is, or holds, a value that is neither an integer nor a slice
HasOtherKind(item) ==
    \/ item.kind = "other"
    \/ /\ item.kind = "tuple"
       /\ \E i \in 1..Len(item.items) : item.items[i].kind \notin {"int", "slice"}

\* C8: an index that is neither an integer nor a slice makes indexing fail
\* with the not-implemented condition and return no view, given bare or as
\* an entry of a tuple index.
C8_OtherIndexKindFails ==
    (IsIndexing /\ HasOtherKind(call.arg))
        => (~ret.ok /\ ret.err = "NotImplementedError")

PositiveShape(v) == \A d \in 1..Len(v.shape) : v.shape[d] > 0

\* C10: every view reached from a Signal of size N >= 1 by successful
\* reshape and indexing operations has only positive dimension sizes.
C10_ShapePositive ==
    /\ view.base >= 1 => PositiveShape(view)
    /\ (call.op \in {"reshape", "getitem"} /\ ret.ok /\ call.self.base >= 1)
         => PositiveShape(ret.val)

\* the base-buffer positions of the elements a view addresses from dimension
\* d on: offset + sum over d of i_d * elemstrides[d], with 0 <= i_d < shape[d]
RECURSIVE Addressed(_, _)
Addressed(v, d) ==
    IF d > Len(v.shape) THEN {v.offset}
    ELSE {a + i * v.elemstrides[d] : a \in Addressed(v, d + 1), i \in 0..(v.shape[d] - 1)}

\* the view has one stride per dimension and addresses only elements of its
\* base buffer, whose positions are 0 .. N - 1
InBuffer(v) ==
    /\ Len(v.elemstrides) = Len(v.shape)
    /\ \A a \in Addressed(v, 1) : 0 <= a /\ a < v.base

\* C11: every view obtained from a Signal of size N by reshape and indexing
\* operations that return successfully has one stride per dimension and
\* addresses only positions in [0, N) of its base buffer.
C11_ViewInBuffer ==
    /\ InBuffer(view)
    /\ (call.op \in {"reshape", "getitem"} /\ ret.ok) => InBuffer(ret.val)

----------------------------------------------------------------------------
(* Properties of the SimModel builder, checked under SpecBuild.  A step    *)
(* that makes a factory call raises ncalls; the call is then mcall' and    *)
(* its outcome mret'.                                                      *)

CallMade == ncalls' = ncalls + 1

\* the collection a factory appends to
CollectionOf(op) ==
    CASE op = "signal" -> "signals"
      [] op = "signal_probe" -> "signal_probes"
      [] op = "nonlinearity" -> "nonlinearities"
      [] op = "encoder" -> "encoders"
      [] op = "decoder" -> "decoders"
      [] op = "transform" -> "transforms"
      [] op = "filter" -> "filters"

\* the classes of the components a collection is meant to hold
ClassesOf(coll) ==
    CASE coll = "signals" -> {"Signal", "Constant"}
      [] coll = "signal_probes" -> {"SignalProbe"}
      [] coll = "nonlinearities" -> nlreg
      [] coll = "encoders" -> {"Encoder"}
      [] coll = "decoders" -> {"Decoder"}
      [] coll = "transforms" -> {"Transform"}
      [] coll = "filters" -> {"Filter"}

Last(seq) == seq[Len(seq)]

\* the weight shape an Encoder or Decoder of this signal and population needs
NeededShape(op, sig, pop) ==
    IF op = "encoder" THEN <<pop.n, size(sig)>> ELSE <<size(sig), pop.n>>

IsWeighted(c) == c.op \in {"encoder", "decoder"}
IsDefaulted(c) == IsWeighted(c) /\ c.weights = None
IsMismatched(c) ==
    IsWeighted(c) /\ c.weights # None
                  /\ c.weights[1].shape # NeededShape(c.op, c.sig, c.pop)

\* the arguments of the call are valid for its factory
ValidCall(c) ==
    CASE c.op = "nonlinearity" -> c.kind \in nlreg
      [] IsWeighted(c) -> IF c.weights = None
                          THEN c.pop.n >= 0 /\ size(c.sig) >= 0
                          ELSE ~IsMismatched(c)
      [] OTHER -> TRUE

\* C1: a factory call with valid arguments lengthens its collection by
\* exactly one and returns the component that is now its last element.
C1_FactoryAppendsAndReturns ==
    [][(CallMade /\ ValidCall(mcall'))
        => LET coll == CollectionOf(mcall'.op) IN
           /\ Len(model'[coll]) = Len(model[coll]) + 1
           /\ mret'.ok
           /\ mret'.val = Last(model'[coll])]_vars

\* C2: nonlinearity(kind) fails with the unregistered-kind condition, a
\* TypeError, and appends nothing when kind is not registered, and succeeds,
\* appending exactly one entry, when it is.
C2_NonlinearityRegistry ==
    [][(CallMade /\ mcall'.op = "nonlinearity")
        => IF mcall'.kind \notin nlreg
           THEN mret' = Raise("TypeError") /\ model' = model
           ELSE /\ mret'.ok
                /\ Len(model'.nonlinearities) = Len(model.nonlinearities) + 1]_vars

\* every Encoder and Decoder of the model has weights of the needed shape
WeightsShaped(m) ==
    /\ \A i \in 1..Len(m.encoders) :
         m.encoders[i].weights.shape
             = <<m.encoders[i].pop.n, size(m.encoders[i].sig)>>
    /\ \A i \in 1..Len(m.decoders) :
         m.decoders[i].weights.shape
             = <<size(m.decoders[i].sig), m.decoders[i].pop.n>>

\* explicit weights of another shape: the call fails with the
\* dimension-mismatch condition, a ValueError, and appends nothing
MismatchRejected ==
    (CallMade /\ IsMismatched(mcall'))
        => (mret' = Raise("ValueError") /\ model' = model)

\* a returned Encoder or Decoder has the needed shape as well
ReturnedShaped ==
    (IsWeighted(mcall) /\ mret.ok)
        => mret.val.weights.shape = NeededShape(mcall.op, mcall.sig, mcall.pop)

\* C6: every Encoder constructed has weights of shape (pop.n, sig.size) and
\* every Decoder weights of shape (sig.size, pop.n), supplied or defaulted;
\* explicit weights of any other shape fail with dimension-mismatch, and the
\* failed SimModel.encoder/decoder call appends nothing.
C6_WeightShapes ==
    /\ [](WeightsShaped(model) /\ ReturnedShaped)
    /\ [][MismatchRejected]_vars

C6_Witness ==
    /\ IsMismatched(mcall) /\ ~mret.ok
    /\ \E i \in 1..Len(model.encoders) : model.encoders[i].weights.from = "randn"
    /\ \E i \in 1..Len(model.decoders) : model.decoders[i].weights.from = "given"

\* the Encoders and Decoders of a model whose weights were defaulted
Defaulted(m) ==
    {m.encoders[i] : i \in {j \in 1..Len(m.encoders) : m.encoders[j].weights.from = "randn"}}
    \cup
    {m.decoders[i] : i \in {j \in 1..Len(m.decoders) : m.decoders[j].weights.from = "randn"}}

NumWeights(w) == prod(w.shape)

\* the draws consumed by the defaulted components constructed before call id
RECURSIVE SumWeights(_)
SumWeights(S) ==
    IF S = {} THEN 0
    ELSE LET x == CHOOSE y \in S : TRUE IN
         NumWeights(x.weights) + SumWeights(S \ {x})

DrawnBefore(m, id) == SumWeights({y \in Defaulted(m) : y.id < id})

\* the source and every defaulted weight matrix are a function of the
\* calls made: the source is the stream of the fixed seed, advanced by
\* the defaulted constructions so far, and a defaulted component holds
\* what that stream gives at the position the defaulted constructions
\* before it have left.  Two runs making the same calls therefore hold
\* the same weights.
FunctionOfCallOrder(m, r) ==
    /\ r = [seed |-> Seed, pos |-> DrawnBefore(m, ncalls + 1)]
    /\ \A x \in Defaulted(m) :
         x.weights = randn([seed |-> Seed, pos |-> DrawnBefore(m, x.id)],
                           x.weights.shape[1], x.weights.shape[2]).val

\* two defaulted components of one run never hold the same weights
DrawsDiffer(m) ==
    \A x \in Defaulted(m), y \in Defaulted(m) : x.id # y.id => x.weights # y.weights

\* a defaulted construction advances the source
DefaultAdvances ==
    (CallMade /\ IsDefaulted(mcall') /\ mret'.ok) => rng'.pos > rng.pos

\* every other factory call leaves the source as it is
OthersKeepSource ==
    (CallMade /\ ~IsDefaulted(mcall')) => rng' = rng

\* C7: default weights are a function of the call order from the fixed
\* seed, so that two runs making the same calls agree on every weight;
\* every defaulted construction advances the shared source, so that two
\* defaulted components of one run receive different draws; constructions
\* with explicit weights and all other factory calls do not consume from
\* the source.
C7_DrawsFollowCallOrder ==
    /\ [](FunctionOfCallOrder(model, rng) /\ DrawsDiffer(model))
    /\ [][DefaultAdvances /\ OthersKeepSource]_vars

\* every entry of every collection was constructed by the collection's own
\* factory, and the entries are in call order
InCallOrder(m) ==
    \A coll \in Collections :
        /\ \A i \in 1..Len(m[coll]) :
             m[coll][i].class \in ClassesOf(coll) /\ m[coll][i].id \in 1..ncalls
        /\ \A i, j \in 1..Len(m[coll]) : i < j => m[coll][i].id < m[coll][j].id

\* a step changes at most the collection of the factory called, by
\* appending the component the call constructed, and never dt
AppendOnly ==
    /\ model'.dt = model.dt
    /\ \A coll \in Collections :
         \/ model'[coll] = model[coll]
         \/ /\ CallMade
            /\ coll = CollectionOf(mcall'.op)
            /\ Len(model'[coll]) = Len(model[coll]) + 1
            /\ SubSeq(model'[coll], 1, Len(model[coll])) = model[coll]
            /\ Last(model'[coll]).id = ncalls'

\* C9: SimModel is append-only: each collection holds the components its
\* own factory constructed, in call order; no call removes, reorders or
\* replaces an entry, and a call leaves the other collections and dt alone.
C9_AppendOnly ==
    /\ [](model.dt = DefaultDt /\ InCallOrder(model))
    /\ [][AppendOnly]_vars

C9_Witness ==
    /\ ncalls = 3
    /\ Len(model.signals) = 2
    /\ Len(model.nonlinearities) = 1
    /\ model.signals[1].class = "Constant"

====
